---- MODULE Spec2Model ----
(***************************************************************************)
(* A state-machine model of the OpenCL rendering bridge CLProgram          *)
(* (src/OpenTESArena/src/Rendering/CLProgram.cpp): construction (device    *)
(* selection, program build, buffer allocation, argument binding), the     *)
(* per-frame operations updateDirection and render, and the status-code    *)
(* translation getErrorString.  The OpenCL runtime is the environment: it  *)
(* supplies the detected platforms, the status every device call returns   *)
(* and the compiler's build log.                                           *)
(***************************************************************************)
EXTENDS Integers, Sequences, FiniteSets, TLC

VARIABLES
    platforms,  \* environment: detected platforms, each a sequence of device types
    buildLog,   \* environment: the compiler's build log for the program
    phase,      \* "new" | "ready" | "fatal" (Debug::check failed) | "aborted" (assert failed)
    message,    \* the diagnostic of the fatal Debug::check, "" while none
    clp,        \* the CLProgram object's fields
    calls,      \* history: the device calls issued, in order
    surface,    \* the caller's SDL_Surface: [w, h, pixels]
    nOps,       \* number of updateDirection/render calls made so far
    request,    \* history: the last operation the caller invoked, with its inputs
    query,      \* a getErrorString evaluation: [error, text, done]
    inf         \* an .INF file and the bytes INFFile's constructor made of it

vars == <<platforms, buildLog, phase, message, clp, calls, surface, nOps, request, query, inf>>

-----------------------------------------------------------------------------
(* Bounds of the model.                                                    *)

\* Largest width/height of the renderer and of the destination surface.
MaxDim == 2
\* Largest number of updateDirection/render calls after construction.
MaxOps == 3
\* getErrorString is evaluated on every code in -MaxNegCode..MaxPosCode.
MaxNegCode == 1010
MaxPosCode == 3
\* Largest number of detected platforms, and of devices on one platform.
MaxPlatforms == 2
MaxDevices == 2
\* Largest size of an .INF file in bytes, and how many times in a row a
\* file's bytes are put through INFFile's constructor.
MaxInfLen == 260
MaxPasses == 2

-----------------------------------------------------------------------------
(* Program and runtime constants.                                          *)

CL_SUCCESS == 0
CL_DEVICE_NOT_FOUND == -1
CL_OUT_OF_RESOURCES == -5
CL_COMPILER_NOT_AVAILABLE == -3
CL_BUILD_PROGRAM_FAILURE == -11
CL_INVALID_BUILD_OPTIONS == -43
CL_INVALID_KERNEL_ARGS == -52
\* sizeof(cl_int) and sizeof(cl_float3) (a cl_float3 is stored as 4 floats).
SizeofClInt == 4
SizeofClFloat == 4
SizeofClFloat3 == 16
Pow2(n) == 2 ^ n

Dims == 1 .. MaxDim
DeviceTypes == {"GPU", "CPU"}

\* Statuses a device call may return: success or a failure.
Statuses == {CL_SUCCESS, CL_OUT_OF_RESOURCES}
\* Statuses cl::Program::build may return.
BuildStatuses ==
    {CL_SUCCESS, CL_BUILD_PROGRAM_FAILURE, CL_INVALID_BUILD_OPTIONS, CL_COMPILER_NOT_AVAILABLE}
\* Build logs the compiler may produce.
BuildLogs == {"", "kernel.cl:1: error: expected ';'"}

-----------------------------------------------------------------------------
(* Strings.                                                                *)

Digit(d) == SubSeq("0123456789", d + 1, d + 1)

RECURSIVE NatToString(_)
NatToString(n) == IF n < 10 THEN Digit(n) ELSE NatToString(n \div 10) \o Digit(n % 10)

\* std::to_string(int): decimal digits, with a leading '-' for negatives.
to_string(n) == IF n < 0 THEN "-" \o NatToString(-n) ELSE NatToString(n)

\* t occurs in s as a contiguous substring.
Contains(s, t) ==
    \E i \in 1 .. (Len(s) - Len(t) + 1) : SubSeq(s, i, i + Len(t) - 1) = t

-----------------------------------------------------------------------------
(* Diagnostics.                                                            *)

\* Debug::check(condition, className, message): a false condition is fatal
\* and reports className and message; the result is the diagnostic, or ""
\* when the condition holds.
Debug_check(condition, className, msg) ==
    IF condition THEN "" ELSE className \o " error: " \o msg

\* CLProgram::getBuildReport: the build log of the program for the device.
getBuildReport(log) == log

\* The arms of getErrorString's switch that return a fixed string, and its
\* default arm.
ErrorName(error) ==
    CASE
         error = 0 -> "CL_SUCCESS"
      [] error = -1 -> "CL_DEVICE_NOT_FOUND"
      [] error = -2 -> "CL_DEVICE_NOT_AVAILABLE"
      [] error = -3 -> "CL_COMPILER_NOT_AVAILABLE"
      [] error = -4 -> "CL_MEM_OBJECT_ALLOCATION_FAILURE"
      [] error = -5 -> "CL_OUT_OF_RESOURCES"
      [] error = -6 -> "CL_OUT_OF_HOST_MEMORY"
      [] error = -7 -> "CL_PROFILING_INFO_NOT_AVAILABLE"
      [] error = -8 -> "CL_MEM_COPY_OVERLAP"
      [] error = -9 -> "CL_IMAGE_FORMAT_MISMATCH"
      [] error = -10 -> "CL_IMAGE_FORMAT_NOT_SUPPORTED"
      [] error = -12 -> "CL_MAP_FAILURE"
      [] error = -13 -> "CL_MISALIGNED_SUB_BUFFER_OFFSET"
      [] error = -14 -> "CL_EXEC_STATUS_ERROR_FOR_EVENTS_IN_WAIT_LIST"
      [] error = -15 -> "CL_COMPILE_PROGRAM_FAILURE"
      [] error = -16 -> "CL_LINKER_NOT_AVAILABLE"
      [] error = -17 -> "CL_LINK_PROGRAM_FAILURE"
      [] error = -18 -> "CL_DEVICE_PARTITION_FAILED"
      [] error = -19 -> "CL_KERNEL_ARG_INFO_NOT_AVAILABLE"
      [] error = -30 -> "CL_INVALID_VALUE"
      [] error = -31 -> "CL_INVALID_DEVICE_TYPE"
      [] error = -32 -> "CL_INVALID_PLATFORM"
      [] error = -33 -> "CL_INVALID_DEVICE"
      [] error = -34 -> "CL_INVALID_CONTEXT"
      [] error = -35 -> "CL_INVALID_QUEUE_PROPERTIES"
      [] error = -36 -> "CL_INVALID_COMMAND_QUEUE"
      [] error = -37 -> "CL_INVALID_HOST_PTR"
      [] error = -38 -> "CL_INVALID_MEM_OBJECT"
      [] error = -39 -> "CL_INVALID_IMAGE_FORMAT_DESCRIPTOR"
      [] error = -40 -> "CL_INVALID_IMAGE_SIZE"
      [] error = -41 -> "CL_INVALID_SAMPLER"
      [] error = -42 -> "CL_INVALID_BINARY"
      [] error = -43 -> "CL_INVALID_BUILD_OPTIONS"
      [] error = -44 -> "CL_INVALID_PROGRAM"
      [] error = -45 -> "CL_INVALID_PROGRAM_EXECUTABLE"
      [] error = -46 -> "CL_INVALID_KERNEL_NAME"
      [] error = -47 -> "CL_INVALID_KERNEL_DEFINITION"
      [] error = -48 -> "CL_INVALID_KERNEL"
      [] error = -49 -> "CL_INVALID_ARG_INDEX"
      [] error = -50 -> "CL_INVALID_ARG_VALUE"
      [] error = -51 -> "CL_INVALID_ARG_SIZE"
      [] error = -52 -> "CL_INVALID_KERNEL_ARGS"
      [] error = -53 -> "CL_INVALID_WORK_DIMENSION"
      [] error = -54 -> "CL_INVALID_WORK_GROUP_SIZE"
      [] error = -55 -> "CL_INVALID_WORK_ITEM_SIZE"
      [] error = -56 -> "CL_INVALID_GLOBAL_OFFSET"
      [] error = -57 -> "CL_INVALID_EVENT_WAIT_LIST"
      [] error = -58 -> "CL_INVALID_EVENT"
      [] error = -59 -> "CL_INVALID_OPERATION"
      [] error = -60 -> "CL_INVALID_GL_OBJECT"
      [] error = -61 -> "CL_INVALID_BUFFER_SIZE"
      [] error = -62 -> "CL_INVALID_MIP_LEVEL"
      [] error = -63 -> "CL_INVALID_GLOBAL_WORK_SIZE"
      [] error = -64 -> "CL_INVALID_PROPERTY"
      [] error = -65 -> "CL_INVALID_IMAGE_DESCRIPTOR"
      [] error = -66 -> "CL_INVALID_COMPILER_OPTIONS"
      [] error = -67 -> "CL_INVALID_LINKER_OPTIONS"
      [] error = -68 -> "CL_INVALID_DEVICE_PARTITION_COUNT"
      [] error = -1000 -> "CL_INVALID_GL_SHAREGROUP_REFERENCE_KHR"
      [] error = -1001 -> "CL_PLATFORM_NOT_FOUND_KHR"
      [] error = -1002 -> "CL_INVALID_D3D10_DEVICE_KHR"
      [] error = -1003 -> "CL_INVALID_D3D10_RESOURCE_KHR"
      [] error = -1004 -> "CL_D3D10_RESOURCE_ALREADY_ACQUIRED_KHR"
      [] error = -1005 -> "CL_D3D10_RESOURCE_NOT_ACQUIRED_KHR"
      [] OTHER -> "Unknown OpenCL error \"" \o to_string(error) \o "\""

\* Mutant: no case for -11, the build log is never fetched.
getErrorString_noBuildLog(error, log) == ErrorName(error)

\* Mutant: the default arm leaves the code out of its text.
getErrorString_noCode(error, log) ==
    IF error = CL_BUILD_PROGRAM_FAILURE THEN getBuildReport(log)
    ELSE IF Contains(ErrorName(error), "Unknown OpenCL error") THEN "Unknown OpenCL error"
    ELSE ErrorName(error)

\* CLProgram::getErrorString: case -11 returns the build report, every other
\* code its fixed string or the default arm's.
getErrorString(error, log) ==
    IF error = CL_BUILD_PROGRAM_FAILURE THEN getBuildReport(log) ELSE ErrorName(error)

\* The codes the switch of getErrorString has a case for.
TableCodes == (-19 .. 0) \cup (-68 .. -30) \cup (-1005 .. -1000)

-----------------------------------------------------------------------------
(* The CLProgram object and the device calls.                              *)

\* One device call as recorded in the history: the operation, the status it
\* returned and its numeric argument (a byte count, an argument index or a
\* work-item count).
Call(op, status, arg) == [op |-> op, status |-> status, arg |-> arg, offset |-> 0]

\* A buffer transfer: its byte count and the buffer offset it starts at.
Transfer(op, status, bytes, offset) ==
    [op |-> op, status |-> status, arg |-> bytes, offset |-> offset]

NullDevice == [valid |-> FALSE, platform |-> 0, index |-> 0]
NullHandle == [valid |-> FALSE]
NullKernel == [valid |-> FALSE, args |-> <<"", "">>]
NullBuffer == [valid |-> FALSE, size |-> 0, data |-> <<>>]

\* The fields of a CLProgram before its constructor has run.
NullObject ==
    [device |-> NullDevice, context |-> NullHandle, commandQueue |-> NullHandle,
     program |-> NullHandle, kernel |-> NullKernel,
     directionBuffer |-> NullBuffer, colorBuffer |-> NullBuffer,
     width |-> 0, height |-> 0]

\* Mutant: the color buffer sized in cells instead of bytes.
ColorBufferBytes_cells(w, h) == w * h

\* sizeof(cl_int) * width * height (computed in size_t, which does not wrap
\* for the sizes modelled here).
ColorBufferBytes(w, h) == SizeofClInt * w * h

\* Mutant: the read-back sized for one row of pixels only.
ReadBackBytes_widthOnly(w, h) == SizeofClInt * w

\* The byte count render reads back: sizeof(cl_int) * this->width * this->height.
ReadBackBytes(w, h) == SizeofClInt * w * h

\* The indices, in order, of the devices of a platform that have the given type
\* (what cl::Platform::getDevices(type, &devices) enumerates).
RECURSIVE DevicesOfType(_, _, _)
DevicesOfType(platform, type, from) ==
    IF from > Len(platform) THEN <<>>
    ELSE (IF platform[from] = type THEN <<from>> ELSE <<>>)
            \o DevicesOfType(platform, type, from + 1)

\* CLProgram::getPlatforms: the platform list (empty when the enumeration
\* fails) and the diagnostic of its Debug::check.
getPlatforms(plats, status) ==
    [platforms |-> IF status = CL_SUCCESS THEN plats ELSE <<>>,
     call |-> Call("cl::Platform::get", status, 0),
     msg |-> Debug_check(status = CL_SUCCESS, "CLProgram", "CLProgram::getPlatforms.")]

\* Mutant: the devices of every type are enumerated.
getDevices_anyType(platform, type, failure) ==
    LET found == [j \in 1 .. Len(platform) |-> j]
        status == IF failure # CL_SUCCESS THEN failure
                  ELSE IF found = <<>> THEN CL_DEVICE_NOT_FOUND ELSE CL_SUCCESS
    IN [devices |-> IF status = CL_SUCCESS THEN found ELSE <<>>,
        call |-> Call("cl::Platform::getDevices", status, 0),
        msg |-> Debug_check((status = CL_SUCCESS) \/ (status = CL_DEVICE_NOT_FOUND),
                            "CLProgram", "CLProgram::getDevices.")]

\* CLProgram::getDevices: the devices of the type on the platform.  The runtime
\* reports CL_DEVICE_NOT_FOUND when none matches, unless it fails otherwise;
\* the device list stays empty on any non-success status.
getDevices(platform, type, failure) ==
    LET found == DevicesOfType(platform, type, 1)
        status == IF failure # CL_SUCCESS THEN failure
                  ELSE IF found = <<>> THEN CL_DEVICE_NOT_FOUND ELSE CL_SUCCESS
    IN [devices |-> IF status = CL_SUCCESS THEN found ELSE <<>>,
        call |-> Call("cl::Platform::getDevices", status, 0),
        msg |-> Debug_check((status = CL_SUCCESS) \/ (status = CL_DEVICE_NOT_FOUND),
                            "CLProgram", "CLProgram::getDevices.")]

\* The device type the constructor asks for: CL_DEVICE_TYPE_GPU.
RequestedDeviceType == "GPU"

\* The diagnostic of a failed cl::Program::build.
BuildMessage(status, log) == "cl::Program::build (" \o getErrorString(status, log) \o ")."

\* The outcome of a handler: the object's fields, the device calls issued
\* (in order) and the fatal diagnostic ("" when the handler returned).
Outcome(obj, issued, msg) == [obj |-> obj, issued |-> issued, msg |-> msg]

\* The two kernel.setArg calls that end the constructor; their statuses are
\* not looked at.
CtorBindArgs(obj, sArg0, sArg1) ==
    [obj |-> [obj EXCEPT !.kernel.args =
                 <<IF sArg0 = CL_SUCCESS THEN "directionBuffer" ELSE "",
                   IF sArg1 = CL_SUCCESS THEN "colorBuffer" ELSE "">>],
     issued |-> <<Call("cl::Kernel::setArg", sArg0, 0), Call("cl::Kernel::setArg", sArg1, 1)>>,
     msg |-> ""]

\* CLProgram::CLProgram(width, height) after its two asserts.  St maps each
\* checked device call to the status the runtime returns for it; junk is the
\* content of freshly allocated device memory.
CLProgram_ctor(w, h, plats, log, St, sArg0, sArg1, junk) ==
    LET o0 == [NullObject EXCEPT !.width = w, !.height = h]
        gp == getPlatforms(plats, St["getPlatforms"])
        c1 == <<gp.call>>
    IN
    IF gp.msg # "" THEN Outcome(o0, c1, gp.msg) ELSE
    LET m2 == Debug_check(Len(gp.platforms) > 0, "CLProgram", "No OpenCL platform found.") IN
    IF m2 # "" THEN Outcome(o0, c1, m2) ELSE
    LET gd == getDevices(gp.platforms[1], RequestedDeviceType, St["getDevices"])
        c2 == c1 \o <<gd.call>>
    IN
    IF gd.msg # "" THEN Outcome(o0, c2, gd.msg) ELSE
    LET m4 == Debug_check(Len(gd.devices) > 0, "CLProgram", "No OpenCL device found.") IN
    IF m4 # "" THEN Outcome(o0, c2, m4) ELSE
    LET o1 == [o0 EXCEPT !.device = [valid |-> TRUE, platform |-> 1, index |-> gd.devices[1]]]
        c3 == c2 \o <<Call("cl::Context", St["Context"], 0)>>
        m5 == Debug_check(St["Context"] = CL_SUCCESS, "CLProgram", "cl::Context.")
    IN
    IF m5 # "" THEN Outcome(o1, c3, m5) ELSE
    LET o2 == [o1 EXCEPT !.context = [valid |-> TRUE]]
        c4 == c3 \o <<Call("cl::CommandQueue", St["CommandQueue"], 0)>>
        m6 == Debug_check(St["CommandQueue"] = CL_SUCCESS, "CLProgram", "cl::CommandQueue.")
    IN
    IF m6 # "" THEN Outcome(o2, c4, m6) ELSE
    LET o3 == [o2 EXCEPT !.commandQueue = [valid |-> TRUE]]
        c5 == c4 \o <<Call("cl::Program", St["Program"], 0)>>
        m7 == Debug_check(St["Program"] = CL_SUCCESS, "CLProgram", "cl::Program.")
    IN
    IF m7 # "" THEN Outcome(o3, c5, m7) ELSE
    LET o4 == [o3 EXCEPT !.program = [valid |-> TRUE]]
        c6 == c5 \o <<Call("cl::Program::build", St["build"], 0)>>
        m8 == Debug_check(St["build"] = CL_SUCCESS, "CLProgram", BuildMessage(St["build"], log))
    IN
    IF m8 # "" THEN Outcome(o4, c6, m8) ELSE
    LET c7 == c6 \o <<Call("cl::Kernel", St["Kernel"], 0)>>
        m9 == Debug_check(St["Kernel"] = CL_SUCCESS, "CLProgram", "cl::Kernel.")
    IN
    IF m9 # "" THEN Outcome(o4, c7, m9) ELSE
    LET o5 == [o4 EXCEPT !.kernel = [valid |-> TRUE, args |-> <<"", "">>]]
        c8 == c7 \o <<Call("cl::Buffer directionBuffer", St["directionBuffer"], SizeofClFloat3)>>
        m10 == Debug_check(St["directionBuffer"] = CL_SUCCESS, "CLProgram",
                           "cl::Buffer directionBuffer.")
    IN
    IF m10 # "" THEN Outcome(o5, c8, m10) ELSE
    LET o6 == [o5 EXCEPT !.directionBuffer =
                  [valid |-> TRUE, size |-> SizeofClFloat3,
                   data |-> [i \in 1 .. (SizeofClFloat3 \div SizeofClFloat) |-> junk]]]
        colorBytes == ColorBufferBytes(w, h)
        c9 == c8 \o <<Call("cl::Buffer colorBuffer", St["colorBuffer"], colorBytes)>>
        m11 == Debug_check(St["colorBuffer"] = CL_SUCCESS, "CLProgram",
                           "cl::Buffer colorBuffer.")
    IN
    IF m11 # "" THEN Outcome(o6, c9, m11) ELSE
    LET o7 == [o6 EXCEPT !.colorBuffer =
                  [valid |-> TRUE, size |-> colorBytes,
                   data |-> [i \in 1 .. (colorBytes \div SizeofClInt) |-> junk]]]
        bound == CtorBindArgs(o7, sArg0, sArg1)
    IN Outcome(bound.obj, c9 \o bound.issued, "")

-----------------------------------------------------------------------------
(* The per-frame operations.                                               *)

\* The spacing of single-precision floats at magnitude a (24-bit significand).
RECURSIVE Ulp(_)
Ulp(a) == IF a < Pow2(24) THEN 1 ELSE 2 * Ulp(a \div 2)

\* static_cast<cl_float>(double) on an integral value: round to the nearest
\* float, ties to even.
ToClFloat(x) ==
    LET a == IF x < 0 THEN -x ELSE x
        u == Ulp(a)
        q == a \div u
        r == a % u
        m == IF (2 * r > u) \/ (2 * r = u /\ q % 2 = 1) THEN (q + 1) * u ELSE q * u
    IN IF x < 0 THEN -m ELSE m

\* Direction vectors the caller passes (x, y, z).
Directions == {<<1, 0, 0>>, <<0, 16777217, -1>>}

\* The local buffer updateDirection fills: sizeof(cl_float3) zeroed bytes with
\* the three components stored in the first three floats.
DirectionBytes(direction) ==
    [i \in 1 .. (SizeofClFloat3 \div SizeofClFloat) |->
        IF i <= 3 THEN ToClFloat(direction[i]) ELSE 0]

\* The status of a buffer transfer of `bytes` bytes at `offset`: the runtime
\* rejects a transfer that does not fit the buffer, and may fail otherwise.
TransferStatus(buffer, offset, bytes, status) ==
    IF offset + bytes > buffer.size THEN -30 ELSE status

\* The status of enqueueNDRangeKernel: the runtime rejects a kernel with an
\* unbound argument, and may fail otherwise.
DispatchStatus(kernel, status) ==
    IF \E a \in 1 .. Len(kernel.args) : kernel.args[a] = "" THEN CL_INVALID_KERNEL_ARGS
    ELSE status

\* Mutant: argument 0 is rebound before the buffer is written.
updateDirection_rebindFirst(obj, direction, sWrite, sArg) ==
    LET buffer == DirectionBytes(direction)
        bytes == Len(buffer) * SizeofClFloat
        c1 == <<Call("cl::Kernel::setArg", sArg, 0)>>
        m1 == Debug_check(sArg = CL_SUCCESS, "CLProgram", "cl::Kernel::setArg updateDirection.")
    IN
    IF m1 # "" THEN Outcome(obj, c1, m1) ELSE
    LET o1 == [obj EXCEPT !.kernel.args[1] = "directionBuffer"]
        st2 == TransferStatus(obj.directionBuffer, 0, bytes, sWrite)
        c2 == c1 \o <<Transfer("enqueueWriteBuffer", st2, bytes, 0)>>
        m2 == Debug_check(st2 = CL_SUCCESS, "CLProgram", "cl::enqueueWriteBuffer updateDirection")
    IN
    IF m2 # "" THEN Outcome(o1, c2, m2) ELSE
    Outcome([o1 EXCEPT !.directionBuffer.data = buffer], c2, "")

\* Mutant: the buffer is written and argument 0 is left as it was.
updateDirection_skipRebind(obj, direction, sWrite, sArg) ==
    LET buffer == DirectionBytes(direction)
        bytes == Len(buffer) * SizeofClFloat
        st1 == TransferStatus(obj.directionBuffer, 0, bytes, sWrite)
        c1 == <<Transfer("enqueueWriteBuffer", st1, bytes, 0)>>
        m1 == Debug_check(st1 = CL_SUCCESS, "CLProgram", "cl::enqueueWriteBuffer updateDirection")
    IN
    IF m1 # "" THEN Outcome(obj, c1, m1) ELSE
    Outcome([obj EXCEPT !.directionBuffer.data = buffer], c1, "")

\* Mutant: the direction buffer is bound to argument 1 instead of argument 0.
updateDirection_bindsArg1(obj, direction, sWrite, sArg) ==
    LET buffer == DirectionBytes(direction)
        bytes == Len(buffer) * SizeofClFloat
        st1 == TransferStatus(obj.directionBuffer, 0, bytes, sWrite)
        c1 == <<Transfer("enqueueWriteBuffer", st1, bytes, 0)>>
        m1 == Debug_check(st1 = CL_SUCCESS, "CLProgram", "cl::enqueueWriteBuffer updateDirection")
    IN
    IF m1 # "" THEN Outcome(obj, c1, m1) ELSE
    LET o1 == [obj EXCEPT !.directionBuffer.data = buffer]
        c2 == c1 \o <<Call("cl::Kernel::setArg", sArg, 1)>>
        m2 == Debug_check(sArg = CL_SUCCESS, "CLProgram", "cl::Kernel::setArg updateDirection.")
    IN
    IF m2 # "" THEN Outcome(o1, c2, m2) ELSE
    Outcome([o1 EXCEPT !.kernel.args[2] = "directionBuffer"], c2, "")

\* CLProgram::updateDirection(direction).
updateDirection(obj, direction, sWrite, sArg) ==
    LET buffer == DirectionBytes(direction)
        bytes == Len(buffer) * SizeofClFloat
        st1 == TransferStatus(obj.directionBuffer, 0, bytes, sWrite)
        c1 == <<Transfer("enqueueWriteBuffer", st1, bytes, 0)>>
        m1 == Debug_check(st1 = CL_SUCCESS, "CLProgram", "cl::enqueueWriteBuffer updateDirection")
    IN
    IF m1 # "" THEN Outcome(obj, c1, m1) ELSE
    LET o1 == [obj EXCEPT !.directionBuffer.data = buffer]
        c2 == c1 \o <<Call("cl::Kernel::setArg", sArg, 0)>>
        m2 == Debug_check(sArg = CL_SUCCESS, "CLProgram", "cl::Kernel::setArg updateDirection.")
    IN
    IF m2 # "" THEN Outcome(o1, c2, m2) ELSE
    Outcome([o1 EXCEPT !.kernel.args[1] = "directionBuffer"], c2, "")

\* The number of kernel dispatches the queue accepted so far.
Dispatches(log) ==
    Cardinality({k \in DOMAIN log :
        log[k].op = "enqueueNDRangeKernel" /\ log[k].status = CL_SUCCESS})

\* The value the kernel's n-th dispatch stores in color cell i.
KernelValue(n, i) == n * 1000 + i

\* One run of the kernel over the (width, height) grid: work item i stores
\* its value in color cell i.
RunKernel(n, w, h, data) ==
    [i \in DOMAIN data |-> IF i <= w * h THEN KernelValue(n, i) ELSE data[i]]

\* enqueueReadBuffer into host memory: the first bytes / sizeof(cl_int) cells
\* of the destination are replaced by the buffer's.
ReadInto(pixels, data, bytes) ==
    [i \in DOMAIN pixels |->
        IF i <= bytes \div SizeofClInt /\ i <= Len(data) THEN data[i] ELSE pixels[i]]

\* Mutant: the surface's height is not compared.
RenderAssert_noHeight(obj, dstNull, dst) ==
    IF dstNull THEN "dst != nullptr"
    ELSE IF obj.width # dst.w THEN "this->width == dst->w"
    ELSE ""

\* The assertion render fails on, "" when all three hold.  A null dst has
\* no w or h.
RenderAssert(obj, dstNull, dst) ==
    IF dstNull THEN "dst != nullptr"
    ELSE IF obj.width # dst.w THEN "this->width == dst->w"
    ELSE IF obj.height # dst.h THEN "this->height == dst->h"
    ELSE ""

\* The outcome of render: as Outcome, with the destination's pixels.
RenderOutcome(obj, pixels, issued, msg) ==
    [obj |-> obj, pixels |-> pixels, issued |-> issued, msg |-> msg]

\* Mutant: the status of the queue drain is not looked at.
render_ignoreFinish(obj, dst, n, sEnqueue, sFinish, sRead) ==
    LET st1 == DispatchStatus(obj.kernel, sEnqueue)
        c1 == <<Call("enqueueNDRangeKernel", st1, obj.width * obj.height)>>
        m1 == Debug_check(st1 = CL_SUCCESS, "CLProgram", "cl::CommandQueue::enqueueNDRangeKernel.")
    IN
    IF m1 # "" THEN RenderOutcome(obj, dst.pixels, c1, m1) ELSE
    LET c2 == c1 \o <<Call("finish", sFinish, 0)>>
        o1 == IF sFinish = CL_SUCCESS
              THEN [obj EXCEPT !.colorBuffer.data = RunKernel(n, obj.width, obj.height, @)]
              ELSE obj
        bytes == ReadBackBytes(obj.width, obj.height)
        st3 == TransferStatus(o1.colorBuffer, 0, bytes, sRead)
        c3 == c2 \o <<Transfer("enqueueReadBuffer", st3, bytes, 0)>>
        m3 == Debug_check(st3 = CL_SUCCESS, "CLProgram", "cl::CommandQueue::enqueueReadBuffer.")
    IN
    IF m3 # "" THEN RenderOutcome(o1, dst.pixels, c3, m3) ELSE
    RenderOutcome(o1, ReadInto(dst.pixels, o1.colorBuffer.data, bytes), c3, "")

\* CLProgram::render(dst) after its three asserts; n numbers this dispatch.
render(obj, dst, n, sEnqueue, sFinish, sRead) ==
    LET st1 == DispatchStatus(obj.kernel, sEnqueue)
        c1 == <<Call("enqueueNDRangeKernel", st1, obj.width * obj.height)>>
        m1 == Debug_check(st1 = CL_SUCCESS, "CLProgram", "cl::CommandQueue::enqueueNDRangeKernel.")
    IN
    IF m1 # "" THEN RenderOutcome(obj, dst.pixels, c1, m1) ELSE
    LET c2 == c1 \o <<Call("finish", sFinish, 0)>>
        m2 == Debug_check(sFinish = CL_SUCCESS, "CLProgram", "cl::CommandQueue::finish.")
    IN
    IF m2 # "" THEN RenderOutcome(obj, dst.pixels, c2, m2) ELSE
    LET o1 == [obj EXCEPT !.colorBuffer.data = RunKernel(n, obj.width, obj.height, @)]
        bytes == ReadBackBytes(obj.width, obj.height)
        st3 == TransferStatus(o1.colorBuffer, 0, bytes, sRead)
        c3 == c2 \o <<Transfer("enqueueReadBuffer", st3, bytes, 0)>>
        m3 == Debug_check(st3 = CL_SUCCESS, "CLProgram", "cl::CommandQueue::enqueueReadBuffer.")
    IN
    IF m3 # "" THEN RenderOutcome(o1, dst.pixels, c3, m3) ELSE
    RenderOutcome(o1, ReadInto(dst.pixels, o1.colorBuffer.data, bytes), c3, "")

-----------------------------------------------------------------------------
(* The state machine.                                                      *)

SeqsUpTo(S, n) == UNION {[1 .. k -> S] : k \in 0 .. n}

\* The environments: the platforms the runtime detects.
PlatformLists == SeqsUpTo(SeqsUpTo(DeviceTypes, MaxDevices), MaxPlatforms)

\* The caller's surfaces: any size, pixels holding a value (0) from before.
Surfaces == {[w |-> w, h |-> h, pixels |-> [i \in 1 .. w * h |-> 0]] : w \in Dims, h \in Dims}

\* The device calls of the constructor whose status is checked.
CtorCalls == {"getPlatforms", "getDevices", "Context", "CommandQueue", "Program",
              "build", "Kernel", "directionBuffer", "colorBuffer"}

\* The failure statuses the runtime may return for a constructor call.
FailureCodes(c) ==
    IF c = "build" THEN BuildStatuses \ {CL_SUCCESS} ELSE Statuses \ {CL_SUCCESS}

\* The content of freshly allocated device memory.
Junk == {-1, -2}

NoQuery == [error |-> 0, text |-> "", done |-> FALSE]

\* No .INF file is being loaded.
NoInf == [filename |-> "", original |-> <<>>, data |-> <<>>, passes |-> 0]

\* The caller's operations as recorded in request.
Request(op, w, h, dstNull, direction) ==
    [op |-> op, w |-> w, h |-> h, dstNull |-> dstNull, direction |-> direction]
NoRequest == Request("", 0, 0, FALSE, <<0, 0, 0>>)

\* A system the renderer can run on: its first platform has a GPU.
RenderingPlatforms == {<<<<"CPU", "GPU">>, <<"GPU">>>>}

Init ==
    /\ platforms \in RenderingPlatforms
    /\ buildLog = ""
    /\ phase = "new"
    /\ message = ""
    /\ clp = NullObject
    /\ calls = <<>>
    /\ surface \in Surfaces
    /\ nOps = 0
    /\ request = NoRequest
    /\ query = NoQuery
    /\ inf = NoInf

\* new CLProgram(w, h): the asserts on the arguments, then the constructor.
\* The runtime either lets every checked call succeed or fails one of them
\* (the calls after a checked failure are never made, so only the inputs
\* the constructor gets to read are varied: the statuses of the two setArg
\* calls when no checked call fails, the build log when the build fails, the
\* content of fresh device memory when a buffer is created).
Construct ==
    /\ phase = "new"
    /\ \E w \in 0 .. MaxDim, h \in 0 .. MaxDim :
         /\ request' = Request("new", w, h, FALSE, <<0, 0, 0>>)
         /\ IF ~(w > 0) \/ ~(h > 0)
            THEN /\ phase' = "aborted"
                 /\ message' = (IF ~(w > 0) THEN "width > 0" ELSE "height > 0")
                 /\ UNCHANGED <<platforms, buildLog, clp, calls, surface, nOps, query, inf>>
            ELSE \E failCall \in CtorCalls \cup {"none"} :
                 \E code \in (IF failCall = "none" THEN {CL_SUCCESS}
                              ELSE FailureCodes(failCall)),
                    sArg0 \in (IF failCall = "none" THEN Statuses ELSE {CL_SUCCESS}),
                    sArg1 \in (IF failCall = "none" THEN Statuses ELSE {CL_SUCCESS}),
                    junk \in (IF failCall \in {"none", "colorBuffer"} THEN Junk
                              ELSE {CHOOSE j \in Junk : TRUE}),
                    log \in (IF failCall = "build" THEN BuildLogs ELSE {""}) :
                   LET St == [c \in CtorCalls |-> IF c = failCall THEN code ELSE CL_SUCCESS]
                       r == CLProgram_ctor(w, h, platforms, log, St, sArg0, sArg1, junk)
                       built == \E k \in DOMAIN r.issued :
                                   r.issued[k].op = "cl::Program::build"
                   IN /\ clp' = r.obj
                      /\ calls' = calls \o r.issued
                      /\ message' = r.msg
                      /\ phase' = (IF r.msg = "" THEN "ready" ELSE "fatal")
                      /\ buildLog' = (IF built /\ St["build"] # CL_SUCCESS THEN log ELSE "")
                      /\ UNCHANGED <<platforms, surface, nOps, query, inf>>

\* A call of updateDirection on the constructed object.
UpdateDirection ==
    /\ phase = "ready"
    /\ nOps < MaxOps
    /\ \E d \in Directions, sWrite \in Statuses, sArg \in Statuses :
         LET r == updateDirection(clp, d, sWrite, sArg)
         IN /\ request' = Request("updateDirection", 0, 0, FALSE, d)
            /\ clp' = r.obj
            /\ calls' = calls \o r.issued
            /\ message' = r.msg
            /\ phase' = (IF r.msg = "" THEN "ready" ELSE "fatal")
            /\ nOps' = nOps + 1
            /\ UNCHANGED <<platforms, buildLog, surface, query, inf>>

\* A call of render on the constructed object, with a null destination or
\* with the caller's surface.
Render ==
    /\ phase = "ready"
    /\ nOps < MaxOps
    /\ \E dstNull \in BOOLEAN, sEnqueue \in Statuses, sFinish \in Statuses, sRead \in Statuses :
         LET failed == RenderAssert(clp, dstNull, surface)
             r == render(clp, surface, Dispatches(calls) + 1, sEnqueue, sFinish, sRead)
         IN /\ request' = Request("render", 0, 0, dstNull, <<0, 0, 0>>)
            /\ nOps' = nOps + 1
            /\ IF failed # ""
               THEN /\ phase' = "aborted"
                    /\ message' = failed
                    /\ UNCHANGED <<platforms, buildLog, clp, calls, surface, query, inf>>
               ELSE /\ clp' = r.obj
                    /\ surface' = [surface EXCEPT !.pixels = r.pixels]
                    /\ calls' = calls \o r.issued
                    /\ message' = r.msg
                    /\ phase' = (IF r.msg = "" THEN "ready" ELSE "fatal")
                    /\ UNCHANGED <<platforms, buildLog, query, inf>>

Next == Construct \/ UpdateDirection \/ Render

\* The renderer's life on a system it can run on: construction, then frames.
Spec == Init /\ [][Next]_vars

\* Construction alone, on every system.
InitConstruct ==
    /\ platforms \in PlatformLists
    /\ buildLog = ""
    /\ phase = "new"
    /\ message = ""
    /\ clp = NullObject
    /\ calls = <<>>
    /\ surface \in {s \in Surfaces : s.w = 1 /\ s.h = 1}
    /\ nOps = 0
    /\ request = NoRequest
    /\ query = NoQuery
    /\ inf = NoInf

NextConstruct == Construct

SpecConstruct == InitConstruct /\ [][NextConstruct]_vars

-----------------------------------------------------------------------------
(* getErrorString on its own: every status code, against either build log. *)

Codes == (-MaxNegCode .. MaxPosCode) \cup {-2147483647, 2147483647}

InitDiag ==
    /\ platforms = <<>>
    /\ buildLog \in BuildLogs
    /\ phase = "new"
    /\ message = ""
    /\ clp = NullObject
    /\ calls = <<>>
    /\ surface \in {s \in Surfaces : s.w = 1 /\ s.h = 1}
    /\ nOps = 0
    /\ request = NoRequest
    /\ query \in {[error |-> e, text |-> "", done |-> FALSE] : e \in Codes}
    /\ inf = NoInf

Describe ==
    /\ ~query.done
    /\ query' = [query EXCEPT !.text = getErrorString(query.error, buildLog), !.done = TRUE]
    /\ UNCHANGED <<platforms, buildLog, phase, message, clp, calls, surface, nOps, request, inf>>

NextDiag == Describe

SpecDiag == InitDiag /\ [][NextDiag]_vars

-----------------------------------------------------------------------------
(* INFFile: decoding the bytes of an .INF file.                            *)

\* The .INF files that are stored unencrypted.
UnencryptedINFs == {"CRYSTAL3.INF", "IMPPAL1.INF", "IMPPAL2.INF", "IMPPAL3.INF", "IMPPAL4.INF"}

\* 0xEA, 0x7B, 0x4E, 0xBD, 0x19, 0xC9, 0x38, 0x99.
encryptionKeys == <<234, 123, 78, 189, 25, 201, 56, 153>>

\* a ^ b on non-negative ints.
RECURSIVE BitXor(_, _)
BitXor(a, b) ==
    IF a = 0 THEN b
    ELSE IF b = 0 THEN a
    ELSE 2 * BitXor(a \div 2, b \div 2) + ((a + b) % 2)

\* Mutant: the byte is XORed with the key alone.
DecodeByte_noCount(encryptedByte, count, key) == BitXor(encryptedByte, key) % 256

\* encryptedByte ^= count + key: the sum is an int, the result is stored back
\* into a uint8_t.
DecodeByte(encryptedByte, count, key) == BitXor(encryptedByte, count + key) % 256

\* The loop's variables before its first iteration.
LoopStart == [keyIndex |-> 0, count |-> 0]

\* What one iteration does to the loop's variables, both uint8_t: keyIndex
\* moves to the next key cyclically, count++ wraps after 255.
LoopStep(s) ==
    [keyIndex |-> ((s.keyIndex + 1) % Len(encryptionKeys)) % 256,
     count |-> (s.count + 1) % 256]

\* The iterations of the loop over srcData[lo .. hi] (1-based), entered with
\* the loop's variables s: the decoded bytes and the loop's variables after
\* the last of these iterations.  Each byte is decoded with the count and
\* the key of its own iteration; the second half of the range is entered
\* with the variables the first half leaves.
RECURSIVE DecodeRange(_, _, _, _)
DecodeRange(srcData, lo, hi, s) ==
    IF lo > hi THEN [data |-> <<>>, s |-> s]
    ELSE IF lo = hi
         THEN [data |-> <<DecodeByte(srcData[lo], s.count, encryptionKeys[s.keyIndex + 1])>>,
               s |-> LoopStep(s)]
         ELSE LET mid == (lo + hi) \div 2
                  first == DecodeRange(srcData, lo, mid, s)
                  second == DecodeRange(srcData, mid + 1, hi, first.s)
              IN [data |-> first.data \o second.data, s |-> second.s]

\* filename is not one of the unencrypted files.
isEncrypted(filename) == filename \notin UnencryptedINFs

\* INFFile::INFFile up to the decoded srcData: the bytes of the file, decoded
\* when the file is encrypted.  (The text parsing that follows reads these
\* bytes and does not change them.)
INFFile_decode(filename, srcData) ==
    IF isEncrypted(filename) THEN DecodeRange(srcData, 1, Len(srcData), LoopStart).data ELSE srcData

\* File names: two of the unencrypted set, one encrypted, and one that
\* differs from an unencrypted name only in case.
InfNames == {"CRYSTAL3.INF", "IMPPAL4.INF", "LEVEL1.INF", "crystal3.inf"}

\* File sizes: around the period of the keys (8) and of the counter (256).
InfLengths == {0, 1, 7, 8, 9, 255, 256, 257, MaxInfLen}

\* File contents: byte i (0-based) is (seed + i * stride) mod 256.
InfContent(len, seed, stride) == [i \in 1 .. len |-> (seed + (i - 1) * stride) % 256]

InitINF ==
    /\ platforms = <<>>
    /\ buildLog = ""
    /\ phase = "new"
    /\ message = ""
    /\ clp = NullObject
    /\ calls = <<>>
    /\ surface \in {s \in Surfaces : s.w = 1 /\ s.h = 1}
    /\ nOps = 0
    /\ request = NoRequest
    /\ query = NoQuery
    /\ \E name \in InfNames, len \in InfLengths, seed \in {0, 97, 255}, stride \in {0, 1, 37} :
         LET bytes == InfContent(len, seed, stride)
         IN inf = [filename |-> name, original |-> bytes, data |-> bytes, passes |-> 0]

\* INFFile(filename) on a file holding the bytes in inf.data: the first pass
\* loads the file itself, a further pass loads a file of the same name that
\* holds the previous pass's output.
INFLoad ==
    /\ inf.passes < MaxPasses
    /\ inf' = [inf EXCEPT !.data = INFFile_decode(inf.filename, inf.data),
                          !.passes = inf.passes + 1]
    /\ UNCHANGED <<platforms, buildLog, phase, message, clp, calls, surface, nOps,
                   request, query>>

NextINF == INFLoad

SpecINF == InitINF /\ [][NextINF]_vars

-----------------------------------------------------------------------------
(* Reading the history.                                                    *)

\* The number of device calls the constructor issued when it ran to its end:
\* everything up to the two setArg calls after the color buffer's creation.
CtorLen ==
    IF \E k \in DOMAIN calls : calls[k].op = "cl::Buffer colorBuffer" /\ calls[k].status = CL_SUCCESS
    THEN 2 + CHOOSE k \in DOMAIN calls : calls[k].op = "cl::Buffer colorBuffer"
    ELSE Len(calls)

\* The positions of the device calls issued by updateDirection and render.
FrameIdx == (CtorLen + 1) .. Len(calls)

IsOp(k, op) == k \in FrameIdx /\ calls[k].op = op
Ok(k) == calls[k].status = CL_SUCCESS

IsWrite(k) == IsOp(k, "enqueueWriteBuffer")
IsRebind(k) == IsOp(k, "cl::Kernel::setArg") /\ calls[k].arg = 0
IsDispatch(k) == IsOp(k, "enqueueNDRangeKernel")
IsFinish(k) == IsOp(k, "finish")
IsRead(k) == IsOp(k, "enqueueReadBuffer")

\* A complete frame's five device calls start at position k, all successful.
FullFrameAt(k) ==
    /\ IsWrite(k) /\ IsRebind(k + 1) /\ IsDispatch(k + 2) /\ IsFinish(k + 3) /\ IsRead(k + 4)
    /\ \A j \in k .. (k + 4) : Ok(j)

-----------------------------------------------------------------------------
(* C1 *)

\* C1 as stated: every kernel dispatch the queue accepts is preceded, since
\* the previous dispatch (or since construction), by a direction write
\* followed by a rebind of argument 0, whatever calls the caller makes.
C1_DispatchAlwaysAfterWriteAndRebind ==
    \A k \in FrameIdx :
        (IsDispatch(k) /\ Ok(k)) =>
            \E i \in FrameIdx, j \in FrameIdx :
                /\ i < j /\ j < k
                /\ IsWrite(i) /\ IsRebind(j)
                /\ \A d \in FrameIdx : (IsDispatch(d) /\ d < k) => d < i

\* C1, amended: the renderer orders the device calls inside each operation
\* only.  In updateDirection the rebind of argument 0 directly follows the
\* direction write; in render the queue drain directly follows the dispatch and
\* the read-back directly follows the drain; and what directly precedes a
\* dispatch is the construction, a completed updateDirection (write, then
\* rebind, both successful) or the previous render's read-back.
C1_OrderWithinEachOperation ==
    /\ \A k \in FrameIdx :
          /\ IsRebind(k) => IsWrite(k - 1)
          /\ IsFinish(k) => IsDispatch(k - 1)
          /\ IsRead(k) => IsFinish(k - 1)
          /\ (IsDispatch(k) /\ k - 1 \in FrameIdx) =>
                \/ IsRead(k - 1) /\ Ok(k - 1)
                \/ IsRebind(k - 1) /\ Ok(k - 1) /\ IsWrite(k - 2) /\ Ok(k - 2)

\* A whole frame was issued in order, and a second dispatch followed it with
\* no write in between.
C1_Witness ==
    \E k \in FrameIdx : FullFrameAt(k) /\ IsDispatch(k + 5)

-----------------------------------------------------------------------------
(* C2 *)

\* C2: a render whose destination is null, or whose surface differs from the
\* configured width or height, is rejected before any device call: the step
\* issues no call and leaves the destination's pixels (and the object) as
\* they were.
C2_MismatchedRenderRejected ==
    [][(/\ request'.op = "render"
        /\ nOps' = nOps + 1
        /\ (request'.dstNull \/ surface.w # clp.width \/ surface.h # clp.height))
       => (/\ phase' = "aborted"
           /\ calls' = calls
           /\ surface' = surface
           /\ clp' = clp)]_vars

\* A render with a surface of the right width and the wrong height was
\* rejected.
C2_Witness ==
    /\ phase = "aborted"
    /\ request.op = "render"
    /\ ~request.dstNull
    /\ surface.w = clp.width
    /\ surface.h # clp.height

-----------------------------------------------------------------------------
(* C3 *)

\* The name by which a fatal diagnostic refers to a frame's device call.
StepName(op) ==
    CASE op = "enqueueWriteBuffer" -> "enqueueWriteBuffer"
      [] op = "cl::Kernel::setArg" -> "setArg"
      [] op = "enqueueNDRangeKernel" -> "enqueueNDRangeKernel"
      [] op = "finish" -> "finish"
      [] op = "enqueueReadBuffer" -> "enqueueReadBuffer"
      [] OTHER -> "?"

\* C3: a non-success status of any step of a frame is fatal: the failing call
\* is the last device call ever issued, the renderer has stopped, and the
\* diagnostic names the failing step.
C3_FrameFailureIsFatal ==
    \A k \in FrameIdx :
        ~Ok(k) =>
            /\ k = Len(calls)
            /\ phase = "fatal"
            /\ Contains(message, StepName(calls[k].op))

\* The queue drain of a frame failed after a successful dispatch.
C3_Witness ==
    /\ phase = "fatal"
    /\ Len(calls) \in FrameIdx
    /\ IsFinish(Len(calls))
    /\ ~Ok(Len(calls))

-----------------------------------------------------------------------------
(* C4 *)

\* C4: after a render that completed, every one of the width*height pixels
\* of the destination holds the value this frame's dispatch produced for it,
\* and the read-back was issued after the drain of that dispatch.
C4_RenderOverwritesEveryPixel ==
    (request.op = "render" /\ phase = "ready") =>
        /\ Len(surface.pixels) = clp.width * clp.height
        /\ \A i \in 1 .. (clp.width * clp.height) :
              surface.pixels[i] = KernelValue(Dispatches(calls), i)
        /\ IsRead(Len(calls)) /\ IsFinish(Len(calls) - 1) /\ IsDispatch(Len(calls) - 2)
        /\ \A j \in (Len(calls) - 2) .. Len(calls) : Ok(j)

\* A second frame was rendered into a surface of more than one row and column.
C4_Witness ==
    /\ request.op = "render"
    /\ phase = "ready"
    /\ Dispatches(calls) = 2
    /\ clp.width > 1
    /\ clp.height > 1

-----------------------------------------------------------------------------
(* C5 *)

\* C5: the color buffer is allocated with 4*width*height bytes and the
\* direction buffer with 16 bytes (one cl_float3); every read-back asks for
\* exactly the color buffer's size, every direction write for exactly the
\* direction buffer's size, both at offset 0, and the runtime never rejects a
\* transfer as not fitting its buffer.
C5_TransferSizesMatchAllocations ==
    /\ \A k \in DOMAIN calls :
          /\ calls[k].op = "cl::Buffer colorBuffer" => calls[k].arg = 4 * clp.width * clp.height
          /\ calls[k].op = "cl::Buffer directionBuffer" => calls[k].arg = 16
    /\ clp.colorBuffer.valid =>
          /\ clp.colorBuffer.size = 4 * clp.width * clp.height
          /\ Len(clp.colorBuffer.data) = clp.width * clp.height
    /\ clp.directionBuffer.valid => clp.directionBuffer.size = 16
    /\ \A k \in FrameIdx :
          /\ IsRead(k) => (calls[k].arg = clp.colorBuffer.size /\ calls[k].offset = 0)
          /\ IsWrite(k) => (calls[k].arg = clp.directionBuffer.size /\ calls[k].offset = 0)
          /\ (IsRead(k) \/ IsWrite(k)) => calls[k].status # -30

\* Both transfers succeeded on a renderer of more than one pixel.
C5_Witness ==
    /\ clp.width * clp.height > 1
    /\ \E i \in FrameIdx, j \in FrameIdx : IsWrite(i) /\ Ok(i) /\ IsRead(j) /\ Ok(j)

-----------------------------------------------------------------------------
(* C6 *)

\* The constructor stopped at a failed cl::Program::build.
BuildFailed ==
    /\ phase = "fatal"
    /\ calls # <<>>
    /\ calls[Len(calls)].op = "cl::Program::build"

\* The status the failed build returned.
BuildStatus == calls[Len(calls)].status

\* C6 as stated: whatever status the failed build returned, the diagnostic
\* carries the compiler's build log.
C6_BuildLogForEveryFailure ==
    BuildFailed => (buildLog # "" => Contains(message, buildLog))

\* C6, amended: the diagnostic of a failed build carries the compiler's build
\* log when the status is -11 (CL_BUILD_PROGRAM_FAILURE); for every other
\* failing status it carries that status's fixed name and not the build log.
C6_BuildLogOnlyForBuildFailureCode ==
    BuildFailed =>
        /\ BuildStatus # CL_SUCCESS
        /\ BuildStatus = -11 =>
              Contains(message, "cl::Program::build (" \o buildLog \o ").")
        /\ BuildStatus = -43 => Contains(message, "cl::Program::build (CL_INVALID_BUILD_OPTIONS).")
        /\ BuildStatus = -3 => Contains(message, "cl::Program::build (CL_COMPILER_NOT_AVAILABLE).")
        /\ (BuildStatus # -11 /\ buildLog # "") => ~Contains(message, buildLog)

\* A build failed with status -11 and a non-empty log, which the diagnostic
\* carries.
C6_Witness ==
    /\ BuildFailed
    /\ BuildStatus = -11
    /\ buildLog # ""
    /\ Contains(message, buildLog)

-----------------------------------------------------------------------------
(* C7 *)

\* C7: getErrorString yields a string for every status code: "CL_SUCCESS" for
\* 0; for a code of the table other than -11 a fixed name (the same whatever
\* the build log) that no other code of the table has; and for a code outside
\* the table a text containing the code in decimal.
C7_ErrorStringTotal ==
    query.done =>
        /\ query.error = 0 => query.text = "CL_SUCCESS"
        /\ query.error \in TableCodes \ {-11} =>
              /\ \A log \in BuildLogs : getErrorString(query.error, log) = query.text
              /\ ~Contains(query.text, "Unknown")
              /\ \A other \in TableCodes \ {-11, query.error} :
                    getErrorString(other, buildLog) # query.text
        /\ query.error \notin TableCodes =>
              /\ Contains(query.text, ToString(query.error))
              /\ Contains(query.text, "Unknown OpenCL error")

\* An unknown code between the run-time and the compile-time codes was
\* described with its number.
C7_Witness ==
    /\ query.done
    /\ query.error = -25
    /\ query.text = "Unknown OpenCL error \"-25\""

-----------------------------------------------------------------------------
(* C8 *)

\* The first platform has a device of the GPU class.
FirstPlatformHasGpu ==
    /\ platforms # <<>>
    /\ \E j \in DOMAIN platforms[1] : platforms[1][j] = "GPU"

\* The resources of the object in the order the constructor creates them.
Resources ==
    <<clp.device.valid, clp.context.valid, clp.commandQueue.valid, clp.program.valid,
      clp.kernel.valid, clp.directionBuffer.valid, clp.colorBuffer.valid>>

\* The resource a constructor call creates (0: none).
ResourceOf(op) ==
    CASE op = "cl::Platform::get" -> 1
      [] op = "cl::Platform::getDevices" -> 1
      [] op = "cl::Context" -> 2
      [] op = "cl::CommandQueue" -> 3
      [] op = "cl::Program" -> 4
      [] op = "cl::Program::build" -> 5
      [] op = "cl::Kernel" -> 5
      [] op = "cl::Buffer directionBuffer" -> 6
      [] op = "cl::Buffer colorBuffer" -> 7
      [] OTHER -> 0

\* C8: the constructor selects the first GPU of the first platform and
\* nothing else; it is fatal when there is no platform, when the first
\* platform has no GPU, and when the platform or device enumeration, the
\* context creation or the queue creation fails; and after a fatal failure
\* no later resource exists.
C8_FirstGpuOfFirstPlatformOrFatal ==
    (request.op = "new" /\ phase # "aborted") =>
        /\ clp.device.valid =>
              /\ FirstPlatformHasGpu
              /\ clp.device.platform = 1
              /\ platforms[1][clp.device.index] = "GPU"
              /\ \A j \in 1 .. (clp.device.index - 1) : platforms[1][j] # "GPU"
        /\ phase = "ready" => \A r \in DOMAIN Resources : Resources[r]
        /\ ~FirstPlatformHasGpu =>
              (phase = "fatal" /\ \A r \in DOMAIN Resources : ~Resources[r])
        /\ \A k \in DOMAIN calls :
              (calls[k].status # CL_SUCCESS /\ ResourceOf(calls[k].op) # 0) =>
                  /\ k = Len(calls)
                  /\ phase = "fatal"
                  /\ message # ""
                  /\ \A r \in DOMAIN Resources : r >= ResourceOf(calls[k].op) => ~Resources[r]
        /\ \A r \in DOMAIN Resources, q \in DOMAIN Resources :
              (r < q /\ Resources[q]) => Resources[r]

\* Construction was fatal on a system whose first platform has only a CPU
\* and whose second platform has a GPU.
C8_Witness ==
    /\ phase = "fatal"
    /\ platforms = <<(<<"CPU">>), (<<"GPU">>)>>
    /\ ~clp.context.valid

-----------------------------------------------------------------------------
(* C9 *)

\* C9: whenever construction completes, argument 0 is bound to the direction
\* buffer and argument 1 to the color buffer.
C9_ConstructedMeansBothArgsBound ==
    (request.op = "new" /\ phase = "ready") =>
        clp.kernel.args = <<"directionBuffer", "colorBuffer">>

-----------------------------------------------------------------------------
(* C10 *)

\* C10: every direction write that succeeds is directly followed by a bind of
\* argument 0, so there are as many rebinds as successful writes; a write
\* that fails is the last device call; and when updateDirection returns,
\* argument 0 is bound to the direction buffer, which holds the vector just
\* passed.
C10_RebindAfterEverySuccessfulWrite ==
    /\ \A k \in FrameIdx :
          /\ (IsWrite(k) /\ Ok(k)) => IsRebind(k + 1)
          /\ (IsWrite(k) /\ ~Ok(k)) => k = Len(calls)
    /\ Cardinality({k \in FrameIdx : IsRebind(k)})
          = Cardinality({k \in FrameIdx : IsWrite(k) /\ Ok(k)})
    /\ (request.op = "updateDirection" /\ phase = "ready") =>
          /\ clp.kernel.args[1] = "directionBuffer"
          /\ IsRebind(Len(calls)) /\ Ok(Len(calls))

\* Two updateDirection calls in a row returned, each with its own write and
\* its own rebind.
C10_Witness ==
    /\ request.op = "updateDirection"
    /\ phase = "ready"
    /\ request.direction = <<1, 0, 0>>
    /\ Cardinality({k \in FrameIdx : IsRebind(k) /\ Ok(k)}) = 2
    /\ IsWrite(Len(calls) - 3) /\ IsWrite(Len(calls) - 1)

-----------------------------------------------------------------------------
(* C11 *)

\* The direction buffer's content after a write of the vector d: its three
\* components as single-precision floats, then the padding float.
WrittenVector(d) ==
    CASE d = <<1, 0, 0>> -> <<1, 0, 0, 0>>
      [] d = <<0, 16777217, -1>> -> <<0, 16777216, -1, 0>>

\* C11: on a constructed renderer, no updateDirection or render changes the
\* configured width and height, the device, context, queue, program or kernel
\* handle, the buffers' validity and sizes, or the binding of argument 1.
\* updateDirection changes nothing but the direction buffer's content and the
\* binding of argument 0, and when it returns the buffer holds exactly the
\* vector passed (as floats); render changes nothing but the color buffer's
\* content and the destination's pixels, so the direction buffer keeps the
\* most recently written vector.
C11_FrameOperationsChangeOnlyTheirBuffers ==
    [][(phase = "ready" /\ nOps' = nOps + 1) =>
          /\ clp'.width = clp.width
          /\ clp'.height = clp.height
          /\ clp'.device = clp.device
          /\ clp'.context = clp.context
          /\ clp'.commandQueue = clp.commandQueue
          /\ clp'.program = clp.program
          /\ clp'.kernel.valid = clp.kernel.valid
          /\ clp'.kernel.args[2] = clp.kernel.args[2]
          /\ clp'.directionBuffer.valid = clp.directionBuffer.valid
          /\ clp'.directionBuffer.size = clp.directionBuffer.size
          /\ clp'.colorBuffer.valid = clp.colorBuffer.valid
          /\ clp'.colorBuffer.size = clp.colorBuffer.size
          /\ request'.op = "updateDirection" =>
                /\ clp'.colorBuffer = clp.colorBuffer
                /\ surface' = surface
                /\ clp'.directionBuffer.data \in
                      {clp.directionBuffer.data, WrittenVector(request'.direction)}
                /\ phase' = "ready" =>
                      /\ clp'.directionBuffer.data = WrittenVector(request'.direction)
                      /\ clp'.kernel.args[1] = "directionBuffer"
          /\ request'.op = "render" =>
                /\ clp'.directionBuffer = clp.directionBuffer
                /\ clp'.kernel = clp.kernel
                /\ surface'.w = surface.w
                /\ surface'.h = surface.h]_vars

\* A frame was rendered after the direction (0, 16777217, -1) was written
\* over an earlier one: the buffer still holds it, rounded to floats.
C11_Witness ==
    /\ request.op = "render"
    /\ phase = "ready"
    /\ nOps = 3
    /\ clp.directionBuffer.data = <<0, 16777216, -1, 0>>
    /\ \E k \in FrameIdx : IsWrite(k) /\ Ok(k) /\ IsWrite(k + 2) /\ Ok(k + 2)

-----------------------------------------------------------------------------
(* C12 *)

\* Bit k of the byte x.
BitOf(x, k) == (x \div (2 ^ k)) % 2

\* c is the bitwise exclusive or of the bytes a and b.
IsByteXor(c, a, b) ==
    /\ c \in 0 .. 255
    /\ \A k \in 0 .. 7 : BitOf(c, k) = (BitOf(a, k) + BitOf(b, k)) % 2

\* data is original with byte i (0-based) XORed with
\* ((i mod 256) + key[i mod 8]) mod 256.
DecodedOf(data, original) ==
    /\ Len(data) = Len(original)
    /\ \A p \in 1 .. Len(original) :
          LET i == p - 1
              key == <<234, 123, 78, 189, 25, 201, 56, 153>>[(i % 8) + 1]
          IN IsByteXor(data[p], original[p], ((i % 256) + key) % 256)

\* C12: decoding an encrypted file replaces byte i by
\* byte[i] XOR ((i mod 256) + key[i mod 8]) mod 256 and keeps the length;
\* decoding the result again gives the original bytes back; and a file of the
\* unencrypted set is left as it is.
C12_InfDecodeIsXorInvolution ==
    /\ Len(inf.data) = Len(inf.original)
    /\ inf.filename \in {"CRYSTAL3.INF", "IMPPAL1.INF", "IMPPAL2.INF", "IMPPAL3.INF", "IMPPAL4.INF"}
          => inf.data = inf.original
    /\ inf.filename \notin {"CRYSTAL3.INF", "IMPPAL1.INF", "IMPPAL2.INF", "IMPPAL3.INF", "IMPPAL4.INF"}
          => /\ inf.passes % 2 = 1 => DecodedOf(inf.data, inf.original)
             /\ inf.passes % 2 = 0 => inf.data = inf.original

\* An encrypted file longer than 256 bytes was decoded twice, and its first
\* decoding changed byte 256, where the counter has wrapped to 0.
C12_Witness ==
    /\ inf.filename = "LEVEL1.INF"
    /\ inf.passes = 2
    /\ Len(inf.original) > 257
    /\ inf.data = inf.original
    /\ INFFile_decode(inf.filename, inf.original)[257] = BitXor(inf.original[257], 234)
    /\ INFFile_decode(inf.filename, inf.original)[257] # inf.original[257]

====
